---- MODULE Spec2Model ----
(***************************************************************************)
(* State-machine model of app.py: one Streamlit session of the document    *)
(* chat application.  The session state (st.session_state), the two        *)
(* ingestion handlers of the sidebar and the chat input handler are        *)
(* modelled; a handler is split only where it blocks on an external call   *)
(* (requests.get, the retrieval chain).                                    *)
(***************************************************************************)
EXTENDS Integers, Sequences, FiniteSets, TLC

(* ------------------------------ bounds --------------------------------- *)
\* ingestion handler runs (uploads and pre-defined ingestions) per session
MaxBatches == 2
\* questions submitted per session
MaxQuestions == 2
\* download / parse faults and silent servers the environment injects
MaxFaults == 1
\* files selected in the uploader for one "Process Uploaded PDFs" click
MaxUpload == 2
\* chunks the splitter produces from one successfully parsed download
ChunksPerDoc == 1

(* --------------------------- Python strings ---------------------------- *)
None == << >>

UpperCase == "ABCDEFGHIJKLMNOPQRSTUVWXYZ"
LowerCase == "abcdefghijklmnopqrstuvwxyz"

lower_char(c) ==
    IF \E i \in 1..Len(UpperCase) : SubSeq(UpperCase, i, i) = c
    THEN LET i == CHOOSE j \in 1..Len(UpperCase) : SubSeq(UpperCase, j, j) = c
         IN  SubSeq(LowerCase, i, i)
    ELSE c

\* lower-cases the characters i..j of s (halving keeps the evaluation shallow)
RECURSIVE lower_range(_, _, _)
lower_range(s, i, j) ==
    IF i > j THEN ""
    ELSE IF i = j THEN lower_char(SubSeq(s, i, i))
    ELSE LET m == (i + j) \div 2
         IN  lower_range(s, i, m) \o lower_range(s, m + 1, j)

\* str.lower()
lower(s) == lower_range(s, 1, Len(s))

\* str.endswith(suffix)
endswith(s, suffix) ==
    /\ Len(s) >= Len(suffix)
    /\ SubSeq(s, Len(s) - Len(suffix) + 1, Len(s)) = suffix

\* index of the first occurrence of one of the characters cs at or after
\* position i, Len(s) + 1 when there is none
find_any(s, cs, i) ==
    LET hits == {j \in i..Len(s) : SubSeq(s, j, j) \in cs}
    IN  IF hits = {} THEN Len(s) + 1
        ELSE CHOOSE j \in hits : \A k \in hits : j <= k

\* str.rfind("/") counted from 1: index of the last "/", 0 when there is none
rfind_slash(s) ==
    LET hits == {j \in 1..Len(s) : SubSeq(s, j, j) = "/"}
    IN  IF hits = {} THEN 0
        ELSE CHOOSE j \in hits : \A k \in hits : j >= k

\* os.path.basename(p)
basename(p) == SubSeq(p, rfind_slash(p) + 1, Len(p))

\* urlparse(url).path for an absolute "scheme://netloc/path;params?query#frag"
urlparse_path(url) ==
    LET afterScheme == find_any(url, {":"}, 1) + 3
        pathStart   == find_any(url, {"/", "?", "#"}, afterScheme)
        pathEnd     == find_any(url, {"?", "#"}, pathStart)
        full        == SubSeq(url, pathStart, pathEnd - 1)
        semi        == find_any(full, {";"}, rfind_slash(full) + 1)
    IN  SubSeq(full, 1, semi - 1)

(* --------------------------- configuration ----------------------------- *)
PDF_DOWNLOAD_DIR == "downloaded_pdfs"

PREDEFINED_PDF_LINKS ==
    ("Dell" :> <<
        "https://i.dell.com/sites/csdocuments/Product_Docs/en/Dell-EMC-PowerEdge-Rack-Servers-Quick-Reference-Guide.pdf",
        "https://www.delltechnologies.com/asset/en-us/products/servers/technical-support/poweredge-r660xs-technical-guide.pdf",
        "https://i.dell.com/sites/csdocuments/shared-content_data-sheets_documents/en/aa/poweredge_r740_r740xd_technical_guide.pdf",
        "https://dl.dell.com/topicspdf/openmanage-server-administrator-v95_users-guide_en-us.pdf",
        "https://dl.dell.com/manuals/common/dellemc-server-config-profile-refguide.pdf" >>)
 @@ ("IBM" :> <<
        "https://www.redbooks.ibm.com/redbooks/pdfs/sg248513.pdf",
        "https://www.ibm.com/docs/SSLVMB_28.0.0/pdf/IBM_SPSS_Statistics_Server_Administrator_Guide.pdf",
        "https://public.dhe.ibm.com/software/webserver/appserv/library/v60/ihs_60.pdf",
        "https://www.ibm.com/docs/en/storage-protect/8.1.25?topic=pdf-files" >>)
 @@ ("Cisco" :> <<
        "https://www.cisco.com/c/dam/global/shared/assets/pdf/cisco_enterprise_campus_infrastructure_design_guide.pdf",
        "https://www.cisco.com/c/dam/en_us/about/ciscoitatwork/downloads/ciscoitatwork/pdf/Cisco_IT_Wireless_LAN_Design_Guide.pdf",
        "https://www.cisco.com/c/dam/en_us/about/ciscoitatwork/downloads/ciscoitatwork/pdf/Cisco_IT_IP_Addressing_Best_Practices.pdf",
        "https://www.cisco.com/c/en/us/td/docs/net_mgmt/network_registrar/7-2/user/guide/cnr72book.pdf" >>)
 @@ ("Juniper" :> <<
        "https://www.juniper.net/documentation/us/en/software/junos/junos-overview/junos-overview.pdf",
        "https://archive.org/download/junos-srxsme/JunOS%20SRX%20Documentation%20Set/network-management.pdf",
        "https://csrc.nist.gov/CSRC/media/projects/cryptographic-module-validation-program/documents/security-policies/140sp3779.pdf" >>)
 @@ ("Fortinet (FortiGate)" :> <<
        "https://fortinetweb.s3.amazonaws.com/docs.fortinet.com/v2/attachments/b94274f8-1a11-11e9-9685-f8bc1258b856/FortiOS-5.6-Firewall.pdf",
        "https://docs.fortinet.com/document/fortiweb/6.0.7/administration-guide-pdf",
        "https://www.andovercg.com/datasheets/fortigate-fortinet-200.pdf",
        "https://www.commoncriteriaportal.org/files/epfiles/Fortinet%20FortiGate_EAL4_ST_V1.5.pdf" >>)
 @@ ("EUC" :> <<
        "https://www.dell.com/en-us/lp/dt/end-user-computing",
        "https://www.nutanix.com/solutions/end-user-computing",
        "https://eucscore.com/docs/tools.html",
        "https://apparity.com/euc-resources/spreadsheet-euc-documents/" >>)

\* the options of the company selectbox: "" and the keys of the table
CompanyOptions == {""} \cup DOMAIN PREDEFINED_PDF_LINKS

\* files the user can put in the uploader: a readable PDF, a PDF without
\* text and a file PyPDFLoader cannot read
UploadableFiles ==
    { [name |-> "manual.pdf",  readable |-> TRUE,  chunks |-> 1],
      [name |-> "blank.pdf",   readable |-> TRUE,  chunks |-> 0],
      [name |-> "corrupt.pdf", readable |-> FALSE, chunks |-> 0] }

\* questions typed into the chat input
Prompts == {"What is PowerEdge?", "What about its cost?"}

VARIABLES
    messages,            \* st.session_state.messages
    vector_store,        \* st.session_state.vector_store: None or <<collection>>
    pdf_display_path,    \* st.session_state.pdf_display_path: None or <<path>>
    chat_history,        \* st.session_state.chat_history: None (absent) or <<list>>
    pc,                  \* "idle", "download" (requests.get in flight), "chain" (qa_chain call in flight)
    handler,             \* handler of the current / last script run
    selected_company,    \* value of the company selectbox
    url_index,           \* position of the for loop over the company's links
    all_new_docs,        \* local of the upload handler
    all_ingested_docs,   \* local of the ingestion handler
    prompt,              \* local of the chat handler
    qa_chain,            \* local of the chat handler: None or the chain built
    server,              \* remote server of the request in flight
    requests,            \* URLs handed to requests.get by the current batch
    trace,               \* per-item outcome of the current batch
    outcome,             \* how the last chain call of the chat handler ended
    nbatches, nquestions, nfaults

session == <<messages, vector_store, pdf_display_path, chat_history>>
locals  == <<selected_company, url_index, all_new_docs, all_ingested_docs, prompt, qa_chain>>
env     == <<server, requests, trace, outcome>>
counts  == <<nbatches, nquestions, nfaults>>
vars    == <<session, pc, handler, locals, env, counts>>

(* ------------------------------ helpers -------------------------------- *)
Collection(vs) == IF vs = None THEN << >> ELSE vs[1]

Message(role, content) == [role |-> role, content |-> content]

\* the texts the splitter returns for a parsed file: chunk k of file_path
Chunks(file_path, n) == [k \in 1..n |-> [source |-> file_path, seq |-> k - 1]]

\* download_pdf: True when the GET and the write succeeded, False when a
\* RequestException or any other exception was caught
download_pdf(response) == response = "ok"

\* load_and_split_pdf whose except branch returns the texts of the file
\* instead of []
load_and_split_pdf_Partial(file_path, readable, n) == Chunks(file_path, n)

\* load_and_split_pdf: the chunks, or [] when loading or splitting raised
load_and_split_pdf(file_path, readable, n) ==
    IF readable THEN Chunks(file_path, n) ELSE << >>

\* initialize_vector_store that leaves out the documents already stored
initialize_vector_store_Dedup(documents, vs) ==
    IF documents # << >>
    THEN IF vs # None
         THEN LET IsNew(d) == \A i \in DOMAIN vs[1] : vs[1][i] # d
              IN  << vs[1] \o SelectSeq(documents, IsNew) >>
         ELSE << documents >>
    ELSE vs

\* initialize_vector_store whose else branch does not assign the new store
initialize_vector_store_NoCreate(documents, vs) ==
    IF documents # << >> /\ vs # None
    THEN << vs[1] \o documents >>
    ELSE vs

\* initialize_vector_store(documents, embeddings): the new value of
\* st.session_state.vector_store.  The function has no except branch; it is
\* modelled with the embeddings handle of lines 193-198 answering, so that
\* from_documents / add_documents return.
initialize_vector_store(documents, vs) ==
    IF documents # << >>
    THEN IF vs # None
         THEN << vs[1] \o documents >>
         ELSE << documents >>
    ELSE vs

\* ConversationBufferMemory loaded from st.session_state.chat_history
load_memory(history) ==
    [i \in 1..Len(history) |->
        [type |-> IF history[i].role = "user" THEN "human" ELSE "ai",
         content |-> history[i].content]]

\* get_rag_chain(vector_store, llm): the chain (None when the store is
\* missing) and the value it leaves in st.session_state.chat_history
get_rag_chain(vs, history) ==
    IF vs = None
    THEN [chain |-> None, chat_history |-> history]
    ELSE LET h == IF history = None THEN << << >> >> ELSE history
         IN  [chain |-> << [memory |-> load_memory(h[1]), retriever |-> vs] >>,
              chat_history |-> h]

\* the link test without the dot of the extension
IsPdfLink_Loose(url) == endswith(lower(url), "pdf")

\* url.lower().endswith(".pdf")
IsPdfLink(url) == endswith(lower(url), ".pdf")

\* os.path.join(PDF_DOWNLOAD_DIR, os.path.basename(urlparse(url).path))
OutputPath(url) == PDF_DOWNLOAD_DIR \o "/" \o basename(urlparse_path(url))

\* IsPdfLink and OutputPath of every configured link, evaluated once
LinkIsPdf ==
    [c \in DOMAIN PREDEFINED_PDF_LINKS |->
        [i \in DOMAIN PREDEFINED_PDF_LINKS[c] |-> IsPdfLink(PREDEFINED_PDF_LINKS[c][i])]]

LinkOutputPath ==
    [c \in DOMAIN PREDEFINED_PDF_LINKS |->
        [i \in DOMAIN PREDEFINED_PDF_LINKS[c] |-> OutputPath(PREDEFINED_PDF_LINKS[c][i])]]

\* tempfile.NamedTemporaryFile(delete=False, suffix=".pdf").name; the random
\* part of the name is not modelled
TempPath(file) == "/tmp/tmp_" \o file.name

\* a chat handler that goes to get_rag_chain without testing the store
StoreMissing_Never(vs) == FALSE

\* the test of the chat handler before it builds the chain
StoreMissing(vs) == vs = None

\* a chat handler that does not log the question before the call
on_submit_Deferred(msgs, q) == msgs

\* messages after the user's question was appended
on_submit(msgs, q) == Append(msgs, Message("user", q))

GuidanceText == "Please upload or ingest documents first to enable chat functionality."
NoChainText  == "RAG chain could not be initialized."
AnswerText(q) == "Answer to: " \o q
ErrorText(e)  == "An error occurred: " \o e

\* messages after response["answer"] was appended
on_answer(msgs, q) == Append(msgs, Message("assistant", AnswerText(q)))

\* an except branch that reports the error without logging it
on_error_Dropped(msgs, e) == msgs

\* messages after the except branch of the chat handler ran
on_error(msgs, e) == Append(msgs, Message("assistant", ErrorText(e)))

(* ------------------------------- Init ---------------------------------- *)
Init ==
    /\ messages = << >>
    /\ vector_store = None
    /\ pdf_display_path = None
    /\ chat_history = None
    /\ pc = "idle"
    /\ handler = "none"
    /\ selected_company = ""
    /\ url_index = 0
    /\ all_new_docs = << >>
    /\ all_ingested_docs = << >>
    /\ prompt = ""
    /\ qa_chain = None
    /\ server = "idle"
    /\ requests = << >>
    /\ trace = << >>
    /\ outcome = "none"
    /\ nbatches = 0
    /\ nquestions = 0
    /\ nfaults = 0

(* ------------------- "Process Uploaded PDFs" handler ------------------- *)
UploadChoices ==
    UNION { [1..n -> UploadableFiles] : n \in 1..MaxUpload }

RECURSIVE UploadedDocs(_, _)
UploadedDocs(files, k) ==
    IF k > Len(files) THEN << >>
    ELSE load_and_split_pdf(TempPath(files[k]), files[k].readable, files[k].chunks)
         \o UploadedDocs(files, k + 1)

ProcessUploadedPDFs(uploaded_files) ==
    /\ pc = "idle"
    /\ nbatches < MaxBatches
    /\ uploaded_files # << >>
    /\ LET docs == UploadedDocs(uploaded_files, 1)
       IN  /\ all_new_docs' = docs
           /\ pdf_display_path' = IF pdf_display_path = None
                                  THEN << TempPath(uploaded_files[1]) >>
                                  ELSE pdf_display_path
           /\ vector_store' = IF docs # << >>
                              THEN initialize_vector_store(docs, vector_store)
                              ELSE vector_store
    /\ trace' = [k \in 1..Len(uploaded_files) |->
                    IF ~uploaded_files[k].readable THEN "parse_failed" ELSE "indexed"]
    /\ handler' = "upload"
    /\ all_ingested_docs' = << >>
    /\ requests' = << >>
    /\ nbatches' = nbatches + 1
    /\ UNCHANGED <<messages, chat_history, pc, selected_company, url_index, prompt,
                   qa_chain, server, outcome, nquestions, nfaults>>

(* ---------------- "Ingest Pre-defined Documents" handler --------------- *)
\* first position at or after i that holds a PDF link, Len(links) + 1 if none
NextPdfIndex(company, i) ==
    LET links == PREDEFINED_PDF_LINKS[company]
        hits  == {j \in i..Len(links) : LinkIsPdf[company][j]}
    IN  IF hits = {} THEN Len(links) + 1
        ELSE CHOOSE j \in hits : \A k \in hits : j <= k

\* the for loop from position i on: non-PDF links are skipped with a warning;
\* at a PDF link the GET is issued and the handler blocks; after the last link
\* the collected chunks go to the vector store
RunLoop(company, i, docs, tr, reqs, display, faults) ==
    LET links == PREDEFINED_PDF_LINKS[company]
        j     == NextPdfIndex(company, i)
        tr2   == tr \o [k \in 1..(j - i) |-> "skipped"]
    IN  /\ url_index' = j
        /\ trace' = tr2
        /\ all_ingested_docs' = docs
        /\ pdf_display_path' = display
        /\ IF j <= Len(links)
           THEN /\ pc' = "download"
                /\ requests' = Append(reqs, links[j])
                /\ \/ server' = "responding" /\ nfaults' = faults
                   \/ faults < MaxFaults /\ server' = "silent" /\ nfaults' = faults + 1
                /\ UNCHANGED <<vector_store, nbatches>>
           ELSE /\ pc' = "idle"
                /\ requests' = reqs
                /\ server' = "idle"
                /\ nfaults' = faults
                /\ vector_store' = IF docs # << >>
                                   THEN initialize_vector_store(docs, vector_store)
                                   ELSE vector_store
                /\ nbatches' = nbatches + 1

IngestPredefinedDocuments(company) ==
    /\ pc = "idle"
    /\ nbatches < MaxBatches
    /\ handler' = "ingest"
    /\ selected_company' = company
    /\ all_new_docs' = << >>
    /\ IF company # ""
       THEN RunLoop(company, 1, << >>, << >>, << >>, pdf_display_path, nfaults)
       ELSE /\ UNCHANGED <<vector_store, pdf_display_path, pc, url_index,
                           all_ingested_docs, server, nbatches, nfaults>>
            /\ requests' = << >>
            /\ trace' = << >>
    /\ UNCHANGED <<messages, chat_history, prompt, qa_chain, outcome, nquestions>>
\* requests.get returned or raised for the link at url_index; the file, when
\* it was written, is parsed and the loop goes on with the next link
DownloadReturn(response, readable) ==
    /\ pc = "download"
    /\ server = "responding"
    /\ response = "error" => ~readable
    /\ LET url         == PREDEFINED_PDF_LINKS[selected_company][url_index]
           output_path == LinkOutputPath[selected_company][url_index]
           ok          == download_pdf(response)
           fault       == IF ok /\ readable THEN 0 ELSE 1
           docs        == IF ok
                          THEN load_and_split_pdf(output_path, readable, ChunksPerDoc)
                          ELSE << >>
           display     == IF ok /\ pdf_display_path = None
                          THEN << output_path >>
                          ELSE pdf_display_path
           result      == IF ~ok THEN "fetch_failed"
                          ELSE IF ~readable THEN "parse_failed"
                          ELSE "indexed"
       IN  /\ nfaults + fault <= MaxFaults
           /\ RunLoop(selected_company, url_index + 1, all_ingested_docs \o docs,
                      Append(trace, result), requests, display, nfaults + fault)
    /\ UNCHANGED <<messages, chat_history, handler, selected_company, all_new_docs,
                   prompt, qa_chain, outcome, nquestions>>

(* --------------------------- chat input handler ------------------------ *)
ChatInput(q) ==
    /\ pc = "idle"
    /\ nquestions < MaxQuestions
    /\ handler' = "chat"
    /\ prompt' = q
    /\ nquestions' = nquestions + 1
    /\ outcome' = "none"
    /\ IF StoreMissing(vector_store)
       THEN /\ messages' = Append(on_submit(messages, q), Message("assistant", GuidanceText))
            /\ qa_chain' = None
            /\ UNCHANGED <<chat_history, pc>>
       ELSE LET built == get_rag_chain(vector_store, chat_history)
            IN  /\ chat_history' = built.chat_history
                /\ qa_chain' = built.chain
                /\ IF built.chain # None
                   THEN /\ messages' = on_submit(messages, q)
                        /\ pc' = "chain"
                   ELSE /\ messages' = Append(on_submit(messages, q),
                                              Message("assistant", NoChainText))
                        /\ pc' = "idle"
    /\ all_new_docs' = << >>
    /\ all_ingested_docs' = << >>
    /\ requests' = << >>
    /\ trace' = << >>
    /\ UNCHANGED <<vector_store, pdf_display_path, selected_company, url_index,
                   server, nbatches, nfaults>>

\* the ways the try block of the chat handler ends: the chain answers and the
\* sources are rendered; the chain raises; the chain answers and rendering
\* the sources raises
ChainOutcomes == {"answered", "chain_error", "render_error"}

\* exceptions the chain or the rendering raises
Exceptions == {"exception"}

ChainReturn(o, e) ==
    /\ pc = "chain"
    /\ o = "render_error" => Len(Collection(qa_chain[1].retriever)) > 0
    /\ messages' = CASE o = "answered"     -> on_answer(messages, prompt)
                     [] o = "chain_error"  -> on_error(messages, e)
                     [] o = "render_error" -> on_error(on_answer(messages, prompt), e)
    /\ outcome' = o
    /\ pc' = "idle"
    /\ qa_chain' = None
    /\ UNCHANGED <<vector_store, pdf_display_path, chat_history, handler,
                   selected_company, url_index, all_new_docs, all_ingested_docs,
                   prompt, server, requests, trace, counts>>

(* ------------------------------ behaviour ------------------------------ *)
Next ==
    \/ \E files \in UploadChoices : ProcessUploadedPDFs(files)
    \/ \E company \in CompanyOptions : IngestPredefinedDocuments(company)
    \/ \E response \in {"ok", "error"}, readable \in BOOLEAN :
           DownloadReturn(response, readable)
    \/ \E q \in Prompts : ChatInput(q)
    \/ \E o \in ChainOutcomes, e \in Exceptions : ChainReturn(o, e)

Spec == Init /\ [][Next]_vars

\* the script run of a session goes on whenever it can
FairSpec == Spec /\ WF_vars(Next)

TypeOK ==
    /\ pc \in {"idle", "download", "chain"}
    /\ handler \in {"none", "upload", "ingest", "chat"}
    /\ selected_company \in CompanyOptions
    /\ nbatches \in 0..MaxBatches
    /\ nquestions \in 0..MaxQuestions
    /\ nfaults \in 0..MaxFaults
(* ------------------------------- claims -------------------------------- *)
IsPrefix(a, b) == Len(a) <= Len(b) /\ SubSeq(b, 1, Len(a)) = a

IsSuffix(a, b) == Len(a) <= Len(b) /\ SubSeq(b, Len(b) - Len(a) + 1, Len(b)) = a

Range(f) == {f[i] : i \in DOMAIN f}

Last(q) == q[Len(q)]

\* the chunks the handler that just finished hands to the vector store
BatchDocs == all_new_docs \o all_ingested_docs

\* whether the path component of each configured link ends in ".pdf"
PathEndsInPdf ==
    [c \in DOMAIN PREDEFINED_PDF_LINKS |->
        [i \in DOMAIN PREDEFINED_PDF_LINKS[c] |->
            endswith(urlparse_path(PREDEFINED_PDF_LINKS[c][i]), ".pdf")]]

\* the chunks a batch with per-item outcomes tr contributes: those of the
\* items that downloaded and parsed, in list order
RECURSIVE ExpectedDocs(_, _, _)
ExpectedDocs(company, tr, i) ==
    IF i > Len(tr) THEN << >>
    ELSE (IF tr[i] = "indexed"
          THEN Chunks(LinkOutputPath[company][i], ChunksPerDoc)
          ELSE << >>) \o ExpectedDocs(company, tr, i + 1)

InIngestion == handler = "ingest" /\ selected_company # ""

\* C1: while the session has no vector store, a question never builds or
\* invokes the retrieval chain; the log gets the question followed by the
\* fixed guidance message and the handler ends normally.
C1_NoChainBeforeIngestion ==
    [][ vector_store = None =>
          /\ qa_chain' = None
          /\ pc' # "chain"
          /\ messages' # messages =>
                /\ messages' = messages \o << Message("user", prompt'),
                                              Message("assistant", GuidanceText) >>
                /\ pc' = "idle"
                /\ vector_store' = None ]_vars

C1_Witness ==
    /\ vector_store = None
    /\ handler = "chat"
    /\ pc = "idle"
    /\ Len(messages) = 4
    /\ messages[4] = Message("assistant", GuidanceText)

C4_AdditiveOnly ==
    [][ /\ IsPrefix(Collection(vector_store), Collection(vector_store'))
        /\ nbatches' # nbatches =>
              /\ Collection(vector_store') = Collection(vector_store) \o BatchDocs'
              /\ (vector_store = None /\ BatchDocs' # << >>) =>
                    vector_store' = << BatchDocs' >>
        /\ nbatches' = nbatches => vector_store' = vector_store ]_vars

C4_Witness ==
    /\ pc = "idle"
    /\ nbatches = 2
    /\ BatchDocs # << >>
    /\ \E i, j \in DOMAIN Collection(vector_store) :
          i < j /\ Collection(vector_store)[i] = Collection(vector_store)[j]

C6_MemoryHoldsEarlierTurns ==
    (pc = "chain" /\ Len(messages) > 1) =>
        qa_chain[1].memory = load_memory(SubSeq(messages, 1, Len(messages) - 1))

\* C7 as stated: the log holds no turn of a question whose call is in flight
\* or has failed.
C7_NoTurnBeforeSuccess ==
    /\ pc = "chain" => ~(messages # << >> /\ Last(messages) = Message("user", prompt))
    /\ (pc = "idle" /\ outcome = "chain_error") =>
          \A e \in Exceptions : Last(messages) # Message("assistant", ErrorText(e))

\* C7 amended: the user turn of a question is appended before the chain is
\* called and its assistant turn only once the call has returned; while the
\* call is in flight the log is the earlier log followed by that user turn,
\* and the return appends assistant turns only.
C7_AssistantTurnAfterReturn ==
    [][ /\ pc' = "chain" =>
              /\ messages' # << >>
              /\ Last(messages') = Message("user", prompt')
              /\ (pc = "idle" => SubSeq(messages', 1, Len(messages') - 1) = messages)
        /\ (pc = "chain" /\ pc' = "idle") =>
              /\ IsPrefix(messages, messages')
              /\ Len(messages') > Len(messages)
              /\ \A i \in (Len(messages) + 1)..Len(messages') :
                    messages'[i].role = "assistant" ]_vars

C7_Witness ==
    /\ pc = "chain"
    /\ Len(messages) = 3
    /\ messages[2].role = "assistant"
    /\ Last(messages) = Message("user", prompt)

\* C8: when the chain call of a question raises, the handler ends normally:
\* the log gets one assistant turn with the error text after the question's
\* user turn, earlier entries and the vector store stay as they were, and
\* the session is back at the point where the next question is taken.
C8_ChainFailureRecorded ==
    [][ (pc = "chain" /\ outcome' = "chain_error") =>
          /\ \E e \in Exceptions :
                messages' = Append(messages, Message("assistant", ErrorText(e)))
          /\ Last(messages) = Message("user", prompt)
          /\ vector_store' = vector_store
          /\ pc' = "idle"
          /\ qa_chain' = None ]_vars

C8_Witness ==
    /\ pc = "idle"
    /\ outcome = "answered"
    /\ Len(messages) = 4
    /\ \E e \in Exceptions : messages[2] = Message("assistant", ErrorText(e))
    /\ messages[4] = Message("assistant", AnswerText(prompt))

\* C9: a batch that waits for a download eventually finishes.
C9_BatchTerminates == (pc = "download") ~> (pc = "idle")

\* C10: the log alternates user, assistant, and every question handled has
\* added exactly one entry of each.
C10_Alternates ==
    /\ \A i \in DOMAIN messages :
          messages[i].role = IF i % 2 = 1 THEN "user" ELSE "assistant"
    /\ pc = "idle" => Len(messages) = 2 * nquestions
====
